---- MODULE Spec2Model ----
(***************************************************************************)
(* A model of big-brain's Action state machine: the Thinker pass           *)
(* (thinker.rs), the composite actions Steps and Concurrently              *)
(* (actions.rs), the cleanup systems, and the deferred command queue of    *)
(* the host ECS through which entities are spawned and despawned.          *)
(***************************************************************************)
EXTENDS Integers, Sequences, FiniteSets, TLC

\* ------------------------------------------------------------------------
\* Bounds of the model.
MaxEnt == 9        \* entity ids handed out by the world before the model stops
MaxSched == 2      \* calls of Thinker::schedule_action
MaxExtra == 2      \* Thinkers beyond one budget window of BudgetModulus
MaxChoices == 4    \* Choices handed to a Picker
MaxInputs == 2     \* (Score, weight) pairs handed to a Measure

\* thinker.rs:427  iterations.index % 500
BudgetModulus == 500

\* ------------------------------------------------------------------------
\* ActionState (actions.rs:17-42)
ActionState == {"Init", "Requested", "Executing", "Cancelled", "Success", "Failure"}

\* Score (scorers.rs:19-37) in tenths: the two ends of 0.0..=1.0
ScoreValues == {0, 10}

\* ------------------------------------------------------------------------
\* Builders.  A builder is a record; the catalogue lists the builders the
\* modelled applications use, a builder names its children by catalogue index.
LeafBuilder == [kind |-> "leaf", kids |-> <<>>, otherwise |-> 0, threshold |-> 0]

StepsBuilder(steps) == [kind |-> "steps", kids |-> steps, otherwise |-> 0, threshold |-> 0]

ConcurrentlyBuilder(actions) == [kind |-> "conc", kids |-> actions, otherwise |-> 0, threshold |-> 0]

ThinkerBuilder(choices, otherwise, threshold) == [kind |-> "thinker", kids |-> choices, otherwise |-> otherwise, threshold |-> threshold]

Catalogue == <<
    LeafBuilder,                          \* 1
    StepsBuilder(<<1, 1, 1>>),            \* 2
    ConcurrentlyBuilder(<<1, 1, 1>>),     \* 3
    ThinkerBuilder(<<2, 1>>, 0, 5),       \* 4  root of "steps"
    ThinkerBuilder(<<3, 1>>, 0, 5),       \* 5  root of "conc"
    ConcurrentlyBuilder(<<1, 1>>),        \* 6
    ThinkerBuilder(<<6>>, 0, 5),          \* 7  a Thinker used as an Action
    ThinkerBuilder(<<7, 1>>, 0, 5),       \* 8  root of "nested"
    ThinkerBuilder(<<1>>, 1, 5),          \* 9  root of "oneoff": a fallback
    StepsBuilder(<<1, 1>>),               \* 10
    ConcurrentlyBuilder(<<10, 1>>),       \* 11 a Steps run concurrently
    ThinkerBuilder(<<11, 1>>, 0, 5),      \* 12 root of "mixed"
    ThinkerBuilder(<<>>, 0, 8),           \* 13 root of "crowd": no Choice
    StepsBuilder(<<>>),                   \* 14 a Steps without steps
    ThinkerBuilder(<<14, 1>>, 0, 5)       \* 15 root of "empty"
  >>

Configs == {"steps", "conc", "nested", "oneoff"}

RootBuilder(c) ==
    CASE c = "steps" -> 4
      [] c = "conc" -> 5
      [] c = "nested" -> 8
      [] c = "oneoff" -> 9
      [] c = "mixed" -> 12
      [] c = "empty" -> 15
      [] OTHER -> 13

\* the builder application systems pass to Thinker::schedule_action
ScheduledBuilder == 1

\* ------------------------------------------------------------------------
VARIABLES
    cfg,         \* which application of the catalogue runs
    order,       \* order of the two unordered systems of BigBrainSet::Actions
    pc,          \* position in the tick
    heap,        \* entity id -> components
    cmds,        \* Commands queued and not yet applied
    nextId,      \* next entity id the world reserves
    itIndex,     \* ThinkerIterations.index
    hasBuilder,  \* the actor carries a ThinkerBuilder component
    hasThinker,  \* the actor's HasThinker component (0: none)
    nSched,      \* number of schedule_action calls so far
    panic,       \* an expect()/unwrap() failed
    writes,      \* ActionState writes of the last engine pass (history)
    visited,     \* the Thinkers the last thinker_system run visited (history)
    age,         \* Thinker -> thinker_system runs since its last visit (history)
    args,        \* the inputs of the Picker or Measure being applied
    ret,         \* what the last application of a Picker or Measure returned
    score,       \* Scorer entity -> the value of its Score component
    ran          \* the systems of BigBrainSet::Scorers that have run in this tick

\* the state of the Action side of the engine, and of its scoring side
actionVars == <<cfg, order, pc, heap, cmds, nextId, itIndex, hasBuilder, hasThinker, nSched, writes, visited, age>>

scoringVars == <<args, ret, score, ran>>

vars == <<actionVars, panic, scoringVars>>

\* Thinker.current_action: None
NoAction == [ent |-> 0, wid |-> 0, bld |-> 0]

\* components of an entity; fields a kind does not carry keep their default.
\* scored (history): a pass of the Scorers set has run since the entity exists
Entity(kind, state, bld) ==
    [kind |-> kind, state |-> state, bld |-> bld, children |-> {},
     active_step |-> 0, active_ent |-> 0, actions |-> <<>>,
     cur |-> NoAction, sched |-> <<>>, scores |-> <<>>, scored |-> FALSE]

StateOf(h, e) == IF e \in DOMAIN h THEN h[e].state ELSE "Missing"

\* the entities of S in the order a query yields them: by id
SortedSeq(S) ==
    IF S = {} THEN <<>>
    ELSE LET last == CHOOSE x \in S : \A y \in S : y <= x
             Member(x) == x \in S
         IN SelectSeq([i \in 1..last |-> i], Member)

SeqRange(s) == {s[i] : i \in 1..Len(s)}

\* ------------------------------------------------------------------------
\* spawn_action (actions.rs:128-145) with the build() of each builder kind.
\* The entity id is reserved at once (cmd.spawn().id()); the components are
\* inserted by queued commands.  Result: [id, cmds, next].
RECURSIVE SpawnAction(_, _)
RECURSIVE SpawnAll(_, _)

\* a queued command
Command(op, id, rec, child) == [op |-> op, id |-> id, rec |-> rec, child |-> child]

SpawnCommand(id, rec) == Command("spawn", id, rec, 0)

\* ConcurrentlyBuilder::build (actions.rs:353-365): one spawn_action per
\* listed action, in order.  Result: [ids, cmds, next].
SpawnAll(bs, next) ==
    IF bs = <<>> THEN [ids |-> <<>>, cmds |-> <<>>, next |-> next]
    ELSE LET first == SpawnAction(bs[1], next)
             rest == SpawnAll(Tail(bs), first.next)
         IN [ids |-> <<first.id>> \o rest.ids,
             cmds |-> first.cmds \o rest.cmds,
             next |-> rest.next]

SpawnAction(b, next) ==
    LET B == Catalogue[b]
        base == Entity("leaf", "Init", b)
    IN CASE B.kind = "leaf" ->
              [id |-> next, next |-> next + 1,
               cmds |-> <<SpawnCommand(next, base)>>]
         [] B.kind = "steps" ->
              \* StepsBuilder::build (actions.rs:179-191)
              IF B.kids = <<>>
              THEN [id |-> next, next |-> next + 1,
                    cmds |-> <<SpawnCommand(next, [base EXCEPT !.kind = "plain"])>>]
              ELSE LET child == SpawnAction(B.kids[1], next + 1)
                   IN [id |-> next, next |-> child.next,
                       cmds |-> <<SpawnCommand(next, [base EXCEPT !.kind = "steps",
                                                              !.active_step = 0,
                                                              !.active_ent = child.id,
                                                              !.children = {child.id}])>>
                                \o child.cmds]
         [] B.kind = "conc" ->
              LET ch == SpawnAll(B.kids, next + 1)
              IN [id |-> next, next |-> ch.next,
                  cmds |-> <<SpawnCommand(next, [base EXCEPT !.kind = "conc",
                                                         !.actions = ch.ids,
                                                         !.children = SeqRange(ch.ids)])>>
                           \o ch.cmds]
         [] OTHER ->
              \* ThinkerBuilder::build (thinker.rs:197-227): the Thinker's
              \* ActionState is inserted as Requested; each Choice's Score
              \* starts at its default 0.0
              [id |-> next, next |-> next + 1,
               cmds |-> <<SpawnCommand(next, [base EXCEPT !.kind = "thinker",
                                                      !.state = "Requested",
                                                      !.scores = [i \in 1..Len(B.kids) |-> 0]])>>]

\* ------------------------------------------------------------------------
\* Applying the queued commands (the host's sync point).
RECURSIVE Descendants(_, _)
Descendants(h, e) ==
    IF e \notin DOMAIN h THEN {}
    ELSE {e} \cup UNION {Descendants(h, c) : c \in h[e].children}

\* despawn_recursive: the entity and its Children, and the entity leaves its
\* parent's Children
DespawnRecursive(h, e) ==
    LET gone == Descendants(h, e)
    IN [x \in DOMAIN h \ gone |-> [h[x] EXCEPT !.children = @ \ gone]]

ApplyCommand(w, c) ==
    CASE c.op = "spawn" -> [w EXCEPT !.heap = (c.id :> c.rec) @@ @]
      [] c.op = "despawn" -> [w EXCEPT !.heap = DespawnRecursive(@, c.id)]
      [] c.op = "push_children" ->
            IF c.id \in DOMAIN w.heap
            THEN [w EXCEPT !.heap[c.id].children = @ \cup {c.child}]
            ELSE w
      [] c.op = "insert_has_thinker" -> [w EXCEPT !.hasThinker = c.id]
      [] OTHER -> [w EXCEPT !.hasThinker = 0]   \* remove::<HasThinker>

RECURSIVE ApplyCommands(_, _)
ApplyCommands(w, cs) ==
    IF cs = <<>> THEN w ELSE ApplyCommands(ApplyCommand(w, Head(cs)), Tail(cs))

\* ------------------------------------------------------------------------
\* The working state of one system run: the ActionState query is written in
\* place, Commands are queued.
Acc(sys) == [sys |-> sys, heap |-> heap, cmds |-> cmds, next |-> nextId,
             index |-> itIndex, panic |-> panic, writes |-> {}, returned |-> FALSE,
             visited |-> <<>>]

\* *states.get_mut(e).unwrap() = s, by the system visiting entity `by`
Write(acc, by, e, s) ==
    [acc EXCEPT !.heap[e].state = s,
                !.writes = @ \cup {[sys |-> acc.sys, by |-> by, ent |-> e,
                                    from |-> acc.heap[e].state, to |-> s]}]

Panic(acc) == [acc EXCEPT !.panic = TRUE]

Despawn(acc, e) ==
    [acc EXCEPT !.cmds = Append(@, Command("despawn", e, Entity("plain", "Init", 0), 0))]

PushChildren(acc, parent, child) ==
    [acc EXCEPT !.cmds = Append(@, Command("push_children", parent, Entity("plain", "Init", 0), child))]

\* spawn_action into the queue; the new entity's id is acc.next
Spawn(acc, b) ==
    LET sp == SpawnAction(b, acc.next)
    IN [acc EXCEPT !.cmds = @ \o sp.cmds, !.next = sp.next]

\* ------------------------------------------------------------------------
\* Pickers.  Result: the index of the Choice, 0 for None.  Scores and
\* thresholds are in tenths.
\* FirstToScore::pick (pickers.rs:42-52), from position i on
FirstToScore_Best(threshold, scores, i) ==
    IF \A j \in i..Len(scores) : scores[j] < threshold THEN 0
    ELSE CHOOSE j \in i..Len(scores) :
            /\ scores[j] >= threshold
            /\ \A k \in i..Len(scores) : scores[k] < scores[j] \/ (scores[k] = scores[j] /\ k <= j)

RECURSIVE FirstToScore(_, _, _)
FirstToScore(threshold, scores, i) ==
    IF i > Len(scores) THEN 0
    ELSE IF scores[i] >= threshold THEN i
    ELSE FirstToScore(threshold, scores, i + 1)

\* pickers.rs:76: the fold of Highest::pick keeps what it has
HighestKeeps_Ties(value, max_score) == value < max_score \/ value <= 0

HighestKeeps(value, max_score) == value <= max_score \/ value <= 0

\* Highest::pick (pickers.rs:70-85): the fold over the Choices from position
\* i on, acc being the index picked so far (0 for None)
RECURSIVE HighestFold(_, _, _, _)
HighestFold(scores, i, max_score, acc) ==
    IF i > Len(scores) THEN acc
    ELSE IF HighestKeeps(scores[i], max_score)
    THEN HighestFold(scores, i + 1, max_score, acc)
    ELSE HighestFold(scores, i + 1, scores[i], i)

Highest(scores) == HighestFold(scores, 1, 0, 0)

\* WeightedProduct::calculate (measures.rs:33-39): the fold from pair i on.
\* Scores and weights are in tenths, so the value after n pairs is in units
\* of 100^-n.
RECURSIVE WeightedProductFold(_, _, _, _)
WeightedProductFold(scores, weights, i, acc) ==
    IF i > Len(scores) THEN acc
    ELSE WeightedProductFold(scores, weights, i + 1, acc * scores[i] * weights[i])

\* measures.rs:37: fold(0f32, ...)
WeightedProduct(scores, weights) == WeightedProductFold(scores, weights, 1, 0)

\* ActionBuilderWrapper (actions.rs:56-66): wid is the identity of the
\* Arc<ActionBuilderId>: i > 0 for the wrapper made by ChoiceBuilder::build
\* for Choice i (choices.rs:57), 0 for the one made by otherwise()
\* (thinker.rs:184), -k for the one made by the k-th schedule_action
\* (thinker.rs:134).
Wrapper(wid, bld) == [wid |-> wid, bld |-> bld]

SetCurrent(acc, t, ent, w) ==
    [acc EXCEPT !.heap[t].cur = [ent |-> ent, wid |-> w.wid, bld |-> w.bld]]

\* thinker.rs:500: the picked builder replaces the current action
ReplacesCurrent_Always(cur, picked, override_current, previous_done) ==
    override_current \/ previous_done

ReplacesCurrent_Other(cur, picked, override_current, previous_done) ==
    cur.wid /= picked.wid /\ (override_current \/ previous_done)

ReplacesCurrent(cur, picked, override_current, previous_done) ==
    (cur.wid /= picked.wid /\ override_current) \/ previous_done

\* thinker.rs:516: the current action is live and has to be cancelled first
StillRunning_OnlyExecuting(curr_action_state) ==
    curr_action_state = "Executing"

StillRunning(curr_action_state) ==
    curr_action_state \in {"Executing", "Requested"}

\* exec_picked_action (thinker.rs:468-571)
\* thinker.rs:535-540: the current action is Cancelled and has not reported
\* yet, so the replacement waits
AwaitCancelled_Replace(acc, t, picked) ==
    LET a1 == Despawn(acc, acc.heap[t].cur.ent)
    IN SetCurrent(Spawn(a1, picked.bld), t, a1.next, picked)

AwaitCancelled(acc, t, picked) == acc

exec_picked_action(acc, t, picked, override_current) ==
    LET cur == acc.heap[t].cur
        curr_action_state == StateOf(acc.heap, cur.ent)
        previous_done == curr_action_state \in {"Success", "Failure"}
    IN IF cur.ent /= 0
       THEN IF curr_action_state = "Missing" THEN Panic(acc)
            ELSE IF ReplacesCurrent(cur, picked, override_current, previous_done)
            THEN CASE StillRunning(curr_action_state) ->
                         Write(acc, t, cur.ent, "Cancelled")
                   [] curr_action_state \in {"Init", "Success", "Failure"} ->
                         LET a1 == Despawn(acc, cur.ent)
                         IN SetCurrent(Spawn(a1, picked.bld), t, a1.next, picked)
                   [] OTHER -> AwaitCancelled(acc, t, picked)
            ELSE IF curr_action_state = "Init"
                 THEN Write(acc, t, cur.ent, "Requested")
                 ELSE acc
       ELSE SetCurrent(Spawn(acc, picked.bld), t, acc.next, picked)

\* should_schedule_action (thinker.rs:434-465); "Missing" stands for the
\* failed expect()
should_schedule_action_Eager(h, t) == h[t].sched /= <<>>

should_schedule_action(h, t) ==
    IF h[t].sched = <<>> THEN FALSE
    ELSE IF h[t].cur.ent /= 0
         THEN StateOf(h, h[t].cur.ent) \in {"Success", "Failure"}
         ELSE TRUE

\* thinker.rs:351-355: a Cancelled Thinker without a current action
IdleCancelled_Wait(acc, t) == acc

IdleCancelled(acc, t) == Write(acc, t, t, "Success")

\* thinker.rs:381-387: pop the head of the schedule queue and spawn it
PopScheduled_Fallback(acc, t) ==
    exec_picked_action(acc, t, Wrapper(0, Catalogue[acc.heap[t].bld].otherwise), FALSE)

PopScheduled(acc, t) ==
    LET action == Head(acc.heap[t].sched)
        a1 == [acc EXCEPT !.heap[t].sched = Tail(@)]
    IN SetCurrent(Spawn(a1, action.bld), t, a1.next, action)

\* thinker.rs:412-420: nothing was picked and the current action is done
FinishedIdle_Report(acc, t) ==
    LET cur == acc.heap[t].cur
    IN Write([Despawn(acc, cur.ent) EXCEPT !.heap[t].cur = NoAction],
             t, t, StateOf(acc.heap, cur.ent))

FinishedIdle(acc, t) ==
    [Despawn(acc, acc.heap[t].cur.ent) EXCEPT !.heap[t].cur = NoAction]

\* the Executing arm of thinker_system (thinker.rs:357-425)
ThinkerExecuting(acc, t) ==
    LET th == acc.heap[t]
        B == Catalogue[th.bld]
        cur == th.cur
        curState == StateOf(acc.heap, cur.ent)
        choice == FirstToScore(B.threshold, th.scores, 1)
    IN        IF choice /= 0
              THEN exec_picked_action(acc, t, Wrapper(choice, B.kids[choice]), TRUE)
              ELSE IF cur.ent /= 0 /\ th.sched /= <<>> /\ curState = "Missing"
              THEN Panic(acc)
              ELSE IF should_schedule_action(acc.heap, t)
              THEN PopScheduled(acc, t)
              ELSE IF B.otherwise /= 0
              THEN exec_picked_action(acc, t, Wrapper(0, B.otherwise), FALSE)
              ELSE IF cur.ent /= 0
                   THEN CASE curState = "Missing" -> Panic(acc)
                          [] curState \in {"Success", "Failure"} -> FinishedIdle(acc, t)
                          [] curState = "Init" -> Write(acc, t, cur.ent, "Requested")
                          [] OTHER -> acc
                   ELSE acc

\* the Requested arm of thinker_system (thinker.rs:321-325)
StartThinker_Pick(acc, t) == ThinkerExecuting(Write(acc, t, t, "Executing"), t)

StartThinker(acc, t) == Write(acc, t, t, "Executing")

\* thinker.rs:341-348: a Cancelled Thinker cancels its live current action
\* and keeps waiting for it
CancelCurrent_Finish(acc, t) ==
    Write(Write(acc, t, acc.heap[t].cur.ent, "Cancelled"), t, t, "Success")

CancelCurrent(acc, t) == Write(acc, t, acc.heap[t].cur.ent, "Cancelled")

\* one iteration of the loop of thinker_system (thinker.rs:307-426)
ThinkerVisit(acc, t) ==
    LET th == acc.heap[t]
        cur == th.cur
        curState == StateOf(acc.heap, cur.ent)
    IN CASE th.state = "Init" -> Write(acc, t, t, "Requested")
         [] th.state = "Requested" -> StartThinker(acc, t)
         [] th.state \in {"Success", "Failure"} -> acc
         [] th.state = "Cancelled" ->
              IF cur.ent /= 0
              THEN CASE curState = "Missing" -> Panic(acc)
                     [] curState \in {"Success", "Failure"} ->
                          [Despawn(acc, cur.ent) EXCEPT !.heap[t].cur = NoAction]
                     [] curState = "Cancelled" -> acc
                     [] OTHER -> CancelCurrent(acc, t)
              ELSE IdleCancelled(acc, t)
         [] OTHER -> ThinkerExecuting(acc, t)

\* the iterations lo..hi of the loop of thinker_system (thinker.rs:304-430),
\* in order, the range being halved so that a pass over hundreds of Thinkers
\* nests only a few evaluations; over: the check
\* start.elapsed() > max_duration succeeds; returned: the early return of
\* thinker.rs:428 was taken
\* thinker.rs:427: the test that ends a run early
BudgetExceeded_EveryVisit(index, over) == over

BudgetExceeded(index, over) == index % BudgetModulus = 0 /\ over

RECURSIVE ThinkerRange(_, _, _, _, _)
ThinkerRange(q, lo, hi, acc, over) ==
    IF lo > hi \/ acc.panic \/ acc.returned THEN acc
    ELSE IF lo = hi
    THEN LET a1 == ThinkerVisit([acc EXCEPT !.index = @ + 1,
                                            !.visited = Append(@, q[lo])], q[lo])
         IN IF BudgetExceeded(a1.index, over)
            THEN [a1 EXCEPT !.returned = TRUE]
            ELSE a1
    ELSE LET mid == (lo + hi) \div 2
         IN ThinkerRange(q, mid + 1, hi, ThinkerRange(q, lo, mid, acc, over), over)

\* thinker.rs:431: the loop ran to the end of the query, the cursor goes back
\* to the start
LoopEnd_Keep(index) == index

LoopEnd(index) == 0

\* the loop of thinker_system (thinker.rs:303-432) over the query, from
\* position i, and the reset of the cursor when it runs to its end
ThinkerLoop(q, i, acc, over) ==
    LET a1 == ThinkerRange(q, i, Len(q), acc, over)
    IN IF a1.panic \/ a1.returned THEN a1 ELSE [a1 EXCEPT !.index = LoopEnd(@)]

Thinkers(h) == SortedSeq({e \in DOMAIN h : h[e].kind = "thinker"})

\* thinker.rs:304: thinker_q.iter_mut().skip(iterations.index), as the
\* position of the first Thinker visited
SkipTo_Restart(index) == 1

SkipTo(index) == index + 1

\* ------------------------------------------------------------------------
\* actions.rs:276: the active step is the last one
IsLastStep_Any(active_step, steps) == active_step >= 0

IsLastStep(active_step, steps) == active_step = Len(steps) - 1

\* actions.rs:266-275: the active step failed
StepFailed_KeepChild(acc, seq_ent, active_ent, step_state) ==
    Write(acc, seq_ent, seq_ent, step_state)

StepFailed(acc, seq_ent, active_ent, step_state) ==
    Despawn(Write(acc, seq_ent, seq_ent, step_state), active_ent)

\* actions.rs:308-309: a Cancelled Steps cancels its running step
CancelStep_Fail(acc, seq_ent, active_ent) ==
    Write(acc, seq_ent, active_ent, "Failure")

CancelStep(acc, seq_ent, active_ent) ==
    Write(acc, seq_ent, active_ent, "Cancelled")

\* actions.rs:310-311: a Cancelled Steps whose active step is done takes
\* the step's state
AdoptStep_Wait(acc, seq_ent, step_state) == acc

AdoptStep(acc, seq_ent, step_state) == Write(acc, seq_ent, seq_ent, step_state)

\* actions.rs:292: steps_action.active_step += 1
NextStep_Same(active_step) == active_step

NextStep(active_step) == active_step + 1

\* one iteration of the loop of steps_system (actions.rs:237-318)
StepsVisit(acc, seq_ent) ==
    LET steps_action == acc.heap[seq_ent]
        steps == Catalogue[steps_action.bld].kids
        active_ent == steps_action.active_ent
        current_state == steps_action.state
        step_state == StateOf(acc.heap, active_ent)
    IN CASE current_state = "Requested" ->
              IF step_state = "Missing" THEN Panic(acc)
              ELSE Write(Write(acc, seq_ent, active_ent, "Requested"),
                         seq_ent, seq_ent, "Executing")
         [] current_state = "Executing" ->
              CASE step_state = "Missing" -> Panic(acc)
                [] step_state = "Init" -> Write(acc, seq_ent, active_ent, "Requested")
                [] step_state \in {"Executing", "Requested", "Cancelled"} -> acc
                [] step_state = "Failure" ->
                     StepFailed(acc, seq_ent, active_ent, step_state)
                [] step_state = "Success" /\ IsLastStep(steps_action.active_step, steps) ->
                     Despawn(Write(acc, seq_ent, seq_ent, step_state), active_ent)
                [] OTHER ->
                     LET a1 == Despawn(acc, active_ent)
                         next_step == NextStep(steps_action.active_step)
                         step_ent == a1.next
                         a2 == Spawn(a1, steps[next_step + 1])
                         a3 == PushChildren(a2, seq_ent, step_ent)
                     IN [a3 EXCEPT !.heap[seq_ent].active_step = next_step,
                                   !.heap[seq_ent].active_ent = step_ent]
         [] current_state = "Cancelled" ->
              CASE step_state = "Missing" -> Panic(acc)
                [] step_state \in {"Requested", "Executing"} ->
                     CancelStep(acc, seq_ent, active_ent)
                [] step_state \in {"Failure", "Success"} ->
                     AdoptStep(acc, seq_ent, step_state)
                [] OTHER -> acc
         [] OTHER -> acc

\* the loop of steps_system over the entities its query matched
RECURSIVE StepsLoop(_, _, _)
StepsLoop(q, i, acc) ==
    IF acc.panic \/ i > Len(q) THEN acc
    ELSE StepsLoop(q, i + 1, StepsVisit(acc, q[i]))

\* ------------------------------------------------------------------------
\* concurrent_system, Requested (actions.rs:413-427): request every child
RECURSIVE ConcRequest(_, _, _, _)
ConcRequest(acc, seq_ent, actions, i) ==
    IF acc.panic \/ i > Len(actions) THEN acc
    ELSE IF StateOf(acc.heap, actions[i]) = "Missing" THEN Panic(acc)
    ELSE ConcRequest(Write(acc, seq_ent, actions[i], "Requested"), seq_ent, actions, i + 1)

\* concurrent_system, Executing, first loop (actions.rs:429-449).
\* l = [acc, all_success, failed]; failed is the position of the last
\* Failure seen (failed_idx + 1), 0 for None
RECURSIVE ConcScan(_, _, _, _)
ConcScan(l, seq_ent, actions, i) ==
    IF l.acc.panic \/ i > Len(actions) THEN l
    ELSE LET child_state == StateOf(l.acc.heap, actions[i])
         IN CASE child_state = "Missing" -> [l EXCEPT !.acc = Panic(@)]
              [] child_state = "Failure" ->
                   ConcScan([l EXCEPT !.failed = i, !.all_success = FALSE],
                            seq_ent, actions, i + 1)
              [] child_state = "Success" -> ConcScan(l, seq_ent, actions, i + 1)
              [] OTHER ->
                   ConcScan([l EXCEPT !.all_success = FALSE,
                                      !.acc = IF l.failed /= 0
                                              THEN Write(@, seq_ent, actions[i], "Cancelled")
                                              ELSE @],
                            seq_ent, actions, i + 1)

\* concurrent_system, Executing, second loop (actions.rs:454-463):
\* actions.iter().take(idx), i.e. the positions before `failed`
ConcCancelBefore_Skip(acc, seq_ent, actions, failed, i) == acc

RECURSIVE ConcCancelBefore(_, _, _, _, _)
ConcCancelBefore(acc, seq_ent, actions, failed, i) ==
    IF acc.panic \/ i >= failed THEN acc
    ELSE LET child_state == StateOf(acc.heap, actions[i])
         IN CASE child_state = "Missing" -> Panic(acc)
              [] child_state \in {"Failure", "Success"} ->
                   ConcCancelBefore(acc, seq_ent, actions, failed, i + 1)
              [] OTHER ->
                   ConcCancelBefore(Write(acc, seq_ent, actions[i], "Cancelled"),
                                    seq_ent, actions, failed, i + 1)

\* concurrent_system, Cancelled, the loop (actions.rs:470-487).
\* l = [acc, all_done, any_failed]
RECURSIVE ConcSettle(_, _, _, _)
ConcSettle(l, seq_ent, actions, i) ==
    IF l.acc.panic \/ i > Len(actions) THEN l
    ELSE LET child_state == StateOf(l.acc.heap, actions[i])
         IN CASE child_state = "Missing" -> [l EXCEPT !.acc = Panic(@)]
              [] child_state \in {"Init", "Success"} ->
                   ConcSettle(l, seq_ent, actions, i + 1)
              [] child_state = "Failure" ->
                   ConcSettle([l EXCEPT !.any_failed = TRUE], seq_ent, actions, i + 1)
              [] OTHER ->
                   ConcSettle([l EXCEPT !.all_done = FALSE,
                                        !.acc = Write(@, seq_ent, actions[i], "Cancelled")],
                              seq_ent, actions, i + 1)

\* one iteration of the loop of concurrent_system (actions.rs:408-505)
ConcurrentVisit(acc, seq_ent) ==
    LET actions == acc.heap[seq_ent].actions
        current_state == acc.heap[seq_ent].state
    IN CASE current_state = "Requested" ->
              ConcRequest(Write(acc, seq_ent, seq_ent, "Executing"), seq_ent, actions, 1)
         [] current_state = "Executing" ->
              LET l == ConcScan([acc |-> acc, all_success |-> TRUE, failed |-> 0],
                                seq_ent, actions, 1)
              IN IF l.acc.panic THEN l.acc
                 ELSE IF l.all_success THEN Write(l.acc, seq_ent, seq_ent, "Success")
                 ELSE IF l.failed /= 0
                 THEN LET a1 == ConcCancelBefore(l.acc, seq_ent, actions, l.failed, 1)
                      IN IF a1.panic THEN a1 ELSE Write(a1, seq_ent, seq_ent, "Cancelled")
                 ELSE l.acc
         [] current_state = "Cancelled" ->
              LET l == ConcSettle([acc |-> acc, all_done |-> TRUE, any_failed |-> FALSE],
                                  seq_ent, actions, 1)
              IN IF l.acc.panic THEN l.acc
                 ELSE IF l.all_done
                 THEN Write(l.acc, seq_ent, seq_ent,
                            IF l.any_failed THEN "Failure" ELSE "Success")
                 ELSE l.acc
         [] OTHER -> acc

\* the loop of concurrent_system over the entities its query matched
RECURSIVE ConcurrentLoop(_, _, _)
ConcurrentLoop(q, i, acc) ==
    IF acc.panic \/ i > Len(q) THEN acc
    ELSE ConcurrentLoop(q, i + 1, ConcurrentVisit(acc, q[i]))

OfKind(h, k) == SortedSeq({e \in DOMAIN h : h[e].kind = k})

\* ------------------------------------------------------------------------
\* Nothing of the scoring side is looked at.
NoScoring ==
    /\ args = << >>
    /\ ret = << >>
    /\ score = << >>
    /\ ran = {}

\* ------------------------------------------------------------------------
\* The state after the application's setup: an actor carrying a
\* ThinkerBuilder, nothing spawned yet (tests/steps.rs:22-29).
InitIn(configs) ==
    /\ cfg \in configs
    /\ order \in {"steps_first", "concurrent_first"}
    /\ pc = "scorers"
    /\ heap = << >>
    /\ cmds = << >>
    /\ nextId = 1
    /\ itIndex = 0
    /\ hasBuilder = TRUE
    /\ hasThinker = 0
    /\ nSched = 0
    /\ panic = FALSE
    /\ writes = {}
    /\ visited = <<>>
    /\ age = << >>
    /\ NoScoring

Init == InitIn(Configs)

\* the runs of thinker_system that passed since each Thinker of h was last
\* visited, after one more run (oneMore) that visited `seen`; a Thinker not yet counted
\* starts at 0
Aged(h, a, seen, oneMore) ==
    [t \in {e \in DOMAIN h : h[e].kind = "thinker"} |->
        IF t \in seen \/ t \notin DOMAIN a THEN 0
        ELSE IF oneMore THEN a[t] + 1 ELSE a[t]]

\* what a system run leaves behind
Commit(acc, nextPc) ==
    /\ acc.next = nextId \/ acc.next <= MaxEnt + 1
    /\ heap' = acc.heap
    /\ cmds' = acc.cmds
    /\ nextId' = acc.next
    /\ itIndex' = acc.index
    /\ panic' = acc.panic
    /\ writes' = acc.writes
    /\ visited' = acc.visited
    /\ age' = IF acc.sys = "thinker_system"
              THEN Aged(heap', age, SeqRange(visited'), TRUE)
              ELSE age
    /\ pc' = nextPc

\* the Scorer entities: one per Choice of every Thinker (choices.rs:51-59)
Scorers(h) == UNION {{<<e, i>> : i \in 1..Len(h[e].scores)} : e \in DOMAIN h}

\* BigBrainSet::Scorers (lib.rs:261-273): the application's scorer systems
\* store a Score for every Choice of every Thinker
ScorerPass ==
    /\ pc = "scorers" /\ ~panic
    /\ \E sc \in [Scorers(heap) -> ScoreValues] :
          heap' = [e \in DOMAIN heap |->
                     IF heap[e].scores /= <<>>
                     THEN [heap[e] EXCEPT !.scores = [i \in 1..Len(@) |-> sc[<<e, i>>]],
                                          !.scored = TRUE]
                     ELSE [heap[e] EXCEPT !.scored = TRUE]]
    /\ pc' = "thinker"
    /\ writes' = {}
    /\ visited' = <<>>
    /\ UNCHANGED <<cfg, order, cmds, nextId, itIndex, hasBuilder, hasThinker, nSched, panic, age>>
    /\ UNCHANGED scoringVars

\* thinker_system (thinker.rs:294-432), BigBrainSet::Thinkers
ThinkerSystem ==
    /\ pc = "thinker" /\ ~panic
    /\ \E over \in BOOLEAN :
          Commit(ThinkerLoop(Thinkers(heap), SkipTo(itIndex), Acc("thinker_system"), over),
                 "sync_thinkers")
    /\ UNCHANGED <<cfg, order, hasBuilder, hasThinker, nSched>>
    /\ UNCHANGED scoringVars

\* the host applies the queued commands: between BigBrainSet::Thinkers and
\* BigBrainSet::Actions, at the end of the schedule, and after the cleanup set
ApplyDeferred ==
    /\ pc \in {"sync_thinkers", "sync_actions", "sync_cleanup"} /\ ~panic
    /\ LET w == ApplyCommands([heap |-> heap, hasThinker |-> hasThinker], cmds)
       IN /\ heap' = w.heap
          /\ hasThinker' = w.hasThinker
    /\ cmds' = << >>
    /\ pc' = CASE pc = "sync_thinkers" -> "actions_a"
               [] pc = "sync_actions" -> "attach"
               [] OTHER -> "scorers"
    /\ writes' = {}
    /\ visited' = <<>>
    /\ age' = Aged(heap', age, {}, FALSE)
    /\ UNCHANGED <<cfg, order, nextId, itIndex, hasBuilder, nSched, panic>>
    /\ UNCHANGED scoringVars

\* (steps_system, concurrent_system).in_set(BigBrainSet::Actions)
\* (lib.rs:278-281): no order between the two
StepsTurn ==
    \/ pc = "actions_a" /\ order = "steps_first"
    \/ pc = "actions_b" /\ order = "concurrent_first"

ConcurrentTurn ==
    \/ pc = "actions_a" /\ order = "concurrent_first"
    \/ pc = "actions_b" /\ order = "steps_first"

\* where the tick goes after a system of BigBrainSet::Actions: to the other
\* system of the set, then to the end of the schedule
AfterAction_Rethink == IF pc = "actions_a" THEN "thinker" ELSE "sync_actions"

AfterAction == IF pc = "actions_a" THEN "actions_b" ELSE "sync_actions"

\* steps_system (actions.rs:231-319), BigBrainSet::Actions
StepsSystem ==
    /\ ~panic
    /\ StepsTurn
    /\ Commit(StepsLoop(OfKind(heap, "steps"), 1, Acc("steps_system")), AfterAction)
    /\ UNCHANGED <<cfg, order, hasBuilder, hasThinker, nSched>>
    /\ UNCHANGED scoringVars

\* concurrent_system (actions.rs:403-506), BigBrainSet::Actions
ConcurrentSystem ==
    /\ ~panic
    /\ ConcurrentTurn
    /\ Commit(ConcurrentLoop(OfKind(heap, "conc"), 1, Acc("concurrent_system")), AfterAction)
    /\ UNCHANGED <<cfg, order, hasBuilder, hasThinker, nSched>>
    /\ UNCHANGED scoringVars

\* thinker_component_attach_system (thinker.rs:234-242)
AttachSystem ==
    /\ pc = "attach" /\ ~panic
    /\ LET acc == Acc("thinker_component_attach_system")
           a1 == IF hasBuilder /\ hasThinker = 0
                 THEN [Spawn(acc, RootBuilder(cfg)) EXCEPT
                         !.cmds = Append(@, Command("insert_has_thinker", acc.next,
                                                    Entity("plain", "Init", 0), 0))]
                 ELSE acc
       IN Commit(a1, "detach")
    /\ UNCHANGED <<cfg, order, hasBuilder, hasThinker, nSched>>
    /\ UNCHANGED scoringVars

\* thinker_component_detach_system (thinker.rs:244-252)
DetachSystem ==
    /\ pc = "detach" /\ ~panic
    /\ LET acc == Acc("thinker_component_detach_system")
           a1 == IF hasThinker /= 0 /\ ~hasBuilder
                 THEN [Despawn(acc, hasThinker) EXCEPT
                         !.cmds = Append(@, Command("remove_has_thinker", 0,
                                                    Entity("plain", "Init", 0), 0))]
                 ELSE acc
       IN Commit(a1, "actor_gone")
    /\ UNCHANGED <<cfg, order, hasBuilder, hasThinker, nSched>>
    /\ UNCHANGED scoringVars

RECURSIVE DespawnEach(_, _, _)
DespawnEach(acc, q, i) ==
    IF i > Len(q) THEN acc ELSE DespawnEach(Despawn(acc, q[i]), q, i + 1)

\* actor_gone_cleanup (thinker.rs:254-265): every entity with an Actor whose
\* actor has no ThinkerBuilder
ActorGoneCleanup ==
    /\ pc = "actor_gone" /\ ~panic
    /\ LET acc == Acc("actor_gone_cleanup")
           a1 == IF ~hasBuilder
                 THEN DespawnEach(acc, SortedSeq(DOMAIN heap), 1)
                 ELSE acc
       IN Commit(a1, "sync_cleanup")
    /\ UNCHANGED <<cfg, order, hasBuilder, hasThinker, nSched>>
    /\ UNCHANGED scoringVars

\* ------------------------------------------------------------------------
\* The application.

\* Application systems run at any place of the tick.  What they write is read
\* by the engine only in the system named below, so each of them is placed
\* at the latest point before that system: a leaf's ActionState is read by
\* thinker_system, steps_system and concurrent_system, the schedule queue by
\* thinker_system, the ThinkerBuilder component by the cleanup systems.
LeafPoints == {"thinker", "actions_a", "actions_b"}

\* the system of a leaf action moves its ActionState as the ActionState
\* documentation asks (actions.rs:22-41)
LeafNext(s) ==
    CASE s = "Requested" -> {"Executing", "Success", "Failure"}
      [] s = "Executing" -> {"Success", "Failure"}
      [] s = "Cancelled" -> {"Success", "Failure"}
      [] OTHER -> {}

LeafStep ==
    /\ ~panic
    /\ pc \in LeafPoints
    /\ \E e \in DOMAIN heap :
          /\ heap[e].kind = "leaf"
          /\ \E s \in LeafNext(heap[e].state) :
                heap' = [heap EXCEPT ![e].state = s]
    /\ writes' = {}
    /\ visited' = <<>>
    /\ UNCHANGED <<cfg, order, pc, cmds, nextId, itIndex, hasBuilder, hasThinker, nSched, panic, age>>
    /\ UNCHANGED scoringVars

\* scheduled_actions.push_back (thinker.rs:133-134)
PushBack_Front(q, w) == <<w>> \o q

PushBack(q, w) == Append(q, w)

\* Thinker::schedule_action (thinker.rs:132-135), called by a system of the
\* "oneoff" application on the actor's Thinker (examples/one_off.rs:49-68)
ScheduleAction ==
    /\ ~panic
    /\ pc = "thinker"
    /\ cfg = "oneoff"
    /\ nSched < MaxSched
    /\ hasThinker \in DOMAIN heap
    /\ heap' = [heap EXCEPT ![hasThinker].sched =
                    PushBack(@, Wrapper(-(nSched + 1), ScheduledBuilder))]
    /\ nSched' = nSched + 1
    /\ writes' = {}
    /\ visited' = <<>>
    /\ UNCHANGED <<cfg, order, pc, cmds, nextId, itIndex, hasBuilder, hasThinker, panic, age>>
    /\ UNCHANGED scoringVars

\* the application removes the ThinkerBuilder component from the actor
RemoveBuilder ==
    /\ ~panic
    /\ pc = "attach"
    /\ hasBuilder
    /\ hasBuilder' = FALSE
    /\ writes' = {}
    /\ visited' = <<>>
    /\ UNCHANGED <<cfg, order, pc, heap, cmds, nextId, itIndex, hasThinker, nSched, panic, age>>
    /\ UNCHANGED scoringVars

Next ==
    \/ ScorerPass
    \/ ThinkerSystem
    \/ ApplyDeferred
    \/ StepsSystem
    \/ ConcurrentSystem
    \/ AttachSystem
    \/ DetachSystem
    \/ ActorGoneCleanup
    \/ LeafStep
    \/ ScheduleAction
    \/ RemoveBuilder

Spec == Init /\ [][Next]_vars

\* ------------------------------------------------------------------------
\* The engine's systems alone.
EngineStep ==
    \/ ScorerPass
    \/ ThinkerSystem
    \/ ApplyDeferred
    \/ StepsSystem
    \/ ConcurrentSystem
    \/ AttachSystem
    \/ DetachSystem
    \/ ActorGoneCleanup

\* An application that keeps its ThinkerBuilder and schedules nothing.
LiveConfigs == {"steps", "mixed"}

NextLive == EngineStep \/ LeafStep

\* the positions of the tick
TickPoints ==
    {"scorers", "thinker", "sync_thinkers", "actions_a", "actions_b",
     "sync_actions", "attach", "detach", "actor_gone", "sync_cleanup"}

\* the tick moves on: a system of the schedule, or a sync point, has run.
\* The steps of NextLive that change pc are those of EngineStep.
Tick == pc' \in TickPoints /\ pc' /= pc

\* the system of leaf action e resolves its cancellation
LeafResolve(e) ==
    /\ LeafStep
    /\ e \in DOMAIN heap
    /\ heap[e].state = "Cancelled"
    /\ heap'[e].state \in {"Success", "Failure"}

\* The host runs the schedule in every frame, for ever (lib.rs:249-292), and
\* the system of a leaf action that is Cancelled resolves it after finitely
\* many ticks (actions.rs:30-35).
LiveSpec ==
    /\ InitIn(LiveConfigs)
    /\ [][NextLive]_vars
    /\ WF_pc(Tick)
    /\ \A e \in 1..MaxEnt : SF_vars(LeafResolve(e))

\* The same host and the same leaf systems, the Thinker's first Choice being
\* a Steps built from an empty StepsBuilder (actions.rs:156-172: nothing
\* makes step() be called).
EmptySpec ==
    /\ InitIn({"empty"})
    /\ [][NextLive]_vars
    /\ WF_pc(Tick)
    /\ \A e \in 1..MaxEnt : SF_vars(LeafResolve(e))

\* ------------------------------------------------------------------------
\* Many actors, each with the Thinker of examples/one_off.rs:26-35 (no
\* Choice, no fallback), already attached; nothing is scheduled.
CrowdInit ==
    /\ cfg = "crowd"
    /\ order \in {"steps_first", "concurrent_first"}
    /\ pc = "scorers"
    /\ \E n \in (BudgetModulus - 1)..(BudgetModulus + MaxExtra) :
          /\ heap = [e \in 1..n |-> Entity("thinker", "Requested", RootBuilder("crowd"))]
          /\ nextId = n + 1
          /\ age = [e \in 1..n |-> 0]
    /\ cmds = << >>
    /\ itIndex = 0
    /\ hasBuilder = TRUE
    /\ hasThinker = 1
    /\ nSched = 0
    /\ panic = FALSE
    /\ writes = {}
    /\ visited = <<>>
    /\ NoScoring

CrowdSpec == CrowdInit /\ [][EngineStep]_vars

\* ------------------------------------------------------------------------
\* The Pickers and Measures as functions of their inputs.

\* nothing of the Action side is looked at
NoActions ==
    /\ cfg = "none"
    /\ order = "steps_first"
    /\ pc = "none"
    /\ heap = << >>
    /\ cmds = << >>
    /\ nextId = 1
    /\ itIndex = 0
    /\ hasBuilder = FALSE
    /\ hasThinker = 0
    /\ nSched = 0
    /\ writes = {}
    /\ visited = <<>>
    /\ age = << >>

\* Score values (Score::get, which set_unchecked lets leave 0.0..=1.0),
\* thresholds and weights, in tenths
PickerScores == {-5, 0, 3, 5, 9}

PickerThresholds == {5, 9}

Weights == {0, 5, 20}

SeqsUpTo(S, n) == UNION {[1..k -> S] : k \in 0..n}

\* the slice of Choices given to Picker::pick, as the values
\* Choice::calculate returns for them (choices.rs:20-25), or the Vec of
\* (Score, weight) given to Measure::calculate
PureInit ==
    /\ NoActions
    /\ panic = FALSE
    /\ \/ /\ args \in [scores : SeqsUpTo(PickerScores, MaxChoices), weights : {<<>>},
                        threshold : PickerThresholds]
       \/ /\ args \in [scores : SeqsUpTo(PickerScores, MaxInputs),
                        weights : SeqsUpTo(Weights, MaxInputs), threshold : {0}]
          /\ args.scores /= <<>>
          /\ Len(args.weights) = Len(args.scores)
    /\ ret = [fn |-> "none", value |-> 0]
    /\ score = << >>
    /\ ran = {}

Returns(fn, value) ==
    /\ ret' = [fn |-> fn, value |-> value]
    /\ UNCHANGED <<actionVars, panic, args, score, ran>>

PickFirstToScore ==
    /\ args.weights = <<>>
    /\ Returns("FirstToScore", FirstToScore(args.threshold, args.scores, 1))

PickHighest ==
    /\ args.weights = <<>>
    /\ Returns("Highest", Highest(args.scores))

CalculateWeightedProduct ==
    /\ args.weights /= <<>>
    /\ Returns("WeightedProduct", WeightedProduct(args.scores, args.weights))

PureNext ==
    \/ PickFirstToScore
    \/ PickHighest
    \/ CalculateWeightedProduct

PureSpec == PureInit /\ [][PureNext]_vars

\* ------------------------------------------------------------------------
\* The built-in Scorers (scorers.rs).  Score values, thresholds and weights
\* are fixed-point numbers in hundredths; One is 1.0.
One == 100

\* evaluators::clamp (evaluators.rs:164-171), also standing for f32::clamp
Clamp(val, min, max) ==
    LET v == IF val > max THEN max ELSE val
    IN IF v < min THEN min ELSE v

\* the product of two fixed-point numbers
Times(a, b) == (a * b) \div One

\* The Scorer entities of the modelled actor, by entity id: a Scorer of the
\* application, a FixedScore, and every built-in composite over them (in the
\* way of examples/custom_measure.rs:158-185), one of them over two
\* composites.
ScorerCatalogue == <<
    [kind |-> "user", kids |-> <<>>],                  \* 1
    [kind |-> "fixed", kids |-> <<>>],                 \* 2  FixedScore(args.fixed)
    [kind |-> "all_or_nothing", kids |-> <<1, 2>>],    \* 3
    [kind |-> "sum", kids |-> <<1, 2>>],               \* 4
    [kind |-> "product", kids |-> <<1, 2>>],           \* 5
    [kind |-> "winning", kids |-> <<1, 2>>],           \* 6
    [kind |-> "evaluating", kids |-> <<1>>],           \* 7  LinearEvaluator::new()
    [kind |-> "measured", kids |-> <<1, 2>>],          \* 8  WeightedSum
    [kind |-> "winning", kids |-> <<4, 5>>]            \* 9
  >>

ScorerEnts == 1..Len(ScorerCatalogue)

BuiltIn == {e \in ScorerEnts : ScorerCatalogue[e].kind /= "user"}

\* the weights MeasuredScorerBuilder::push gives the children of Scorer 8
MeasuredWeights == <<One, One \div 2>>

\* what the application's Scorers store, with set or set_unchecked
UserValues == {0, One \div 2, One + One \div 2}

\* the parameters of the built-in Scorers
FixedValues == {One \div 2, One + One \div 2}

Thresholds == {0, One \div 2}

\* the working state of one scorer system: the Score query and the panic
ScoreAcc == [score |-> score, panic |-> panic]

\* Score::set (scorers.rs:32-37)
ScoreSet_Unchecked(sc, e, value) == [sc EXCEPT !.score[e] = value]

ScoreSet(sc, e, value) ==
    IF ~(0 <= value /\ value <= One)
    THEN [sc EXCEPT !.panic = TRUE]
    ELSE [sc EXCEPT !.score[e] = value]

\* all_or_nothing_system, the loop over the children (scorers.rs:219-229)
RECURSIVE AllOrNothingSum(_, _, _, _, _)
AllOrNothingSum(sv, children, threshold, i, sum) ==
    IF i > Len(children) THEN sum
    ELSE IF sv[children[i]] < threshold THEN 0
    ELSE AllOrNothingSum(sv, children, threshold, i + 1, sum + sv[children[i]])

\* sum_of_scorers_system, the loop over the children (scorers.rs:344-348)
RECURSIVE SumOfChildren(_, _, _)
SumOfChildren(sv, children, i) ==
    IF i > Len(children) THEN 0
    ELSE sv[children[i]] + SumOfChildren(sv, children, i + 1)

\* product_of_scorers_system, the loop over the children (scorers.rs:483-487)
RECURSIVE ProductOfChildren(_, _, _, _)
ProductOfChildren(sv, children, i, product) ==
    IF i > Len(children) THEN product
    ELSE ProductOfChildren(sv, children, i + 1, Times(product, sv[children[i]]))

\* product_of_scorers_system, the compensation (scorers.rs:491-495)
Compensated(product, num_scorers, use_compensation) ==
    IF use_compensation /\ product < One
    THEN LET mod_factor == One - One \div num_scorers
             makeup == Times(One - product, mod_factor)
         IN product + Times(makeup, product)
    ELSE product

\* winning_scorer_system: the last of the sorted child scores
\* (scorers.rs:626-641)
WinningOrZero(sv, children, threshold) ==
    IF children = <<>> THEN 0
    ELSE LET best == CHOOSE i \in 1..Len(children) :
                        \A j \in 1..Len(children) : sv[children[j]] <= sv[children[i]]
         IN IF sv[children[best]] < threshold THEN 0 ELSE sv[children[best]]

\* LinearEvaluator::new().evaluate (evaluators.rs:24-26, 49-57): xa = 0,
\* ya = 0, yb = 1, dy_over_dx = 1
LinearEvaluate(value) == Clamp(0 + Times(One, value - 0), 0, One)

\* WeightedSum::calculate (measures.rs:21-27)
RECURSIVE WeightedSum(_, _, _, _)
WeightedSum(sv, children, weights, i) ==
    IF i > Len(children) THEN 0
    ELSE Times(sv[children[i]], weights[i]) + WeightedSum(sv, children, weights, i + 1)

\* the body of the loop of the system of e's kind: what it stores for e
UpdateScorer(sc, e) ==
    LET S == ScorerCatalogue[e]
        sv == sc.score
        threshold == args.threshold
    IN CASE S.kind = "fixed" ->
              \* fixed_score_system (scorers.rs:130-139)
              ScoreSet(sc, e, args.fixed)
         [] S.kind = "all_or_nothing" ->
              \* all_or_nothing_system (scorers.rs:206-237)
              ScoreSet(sc, e, Clamp(AllOrNothingSum(sv, S.kids, threshold, 1, 0), 0, One))
         [] S.kind = "sum" ->
              \* sum_of_scorers_system (scorers.rs:330-353)
              LET sum == SumOfChildren(sv, S.kids, 1)
              IN ScoreSet(sc, e, Clamp(IF sum < threshold THEN 0 ELSE sum, 0, One))
         [] S.kind = "product" ->
              \* product_of_scorers_system (scorers.rs:467-504)
              LET product == Compensated(ProductOfChildren(sv, S.kids, 1, One),
                                         Len(S.kids), args.use_compensation)
              IN ScoreSet(sc, e, Clamp(IF product < threshold THEN 0 ELSE product, 0, One))
         [] S.kind = "winning" ->
              \* winning_scorer_system (scorers.rs:620-643)
              ScoreSet(sc, e, Clamp(WinningOrZero(sv, S.kids, threshold), 0, One))
         [] S.kind = "evaluating" ->
              \* evaluating_scorer_system (scorers.rs:756-772)
              ScoreSet(sc, e, Clamp(LinearEvaluate(sv[S.kids[1]]), 0, One))
         [] S.kind = "measured" ->
              \* measured_scorers_system (scorers.rs:885-912)
              LET measured_score == WeightedSum(sv, S.kids, MeasuredWeights, 1)
              IN IF measured_score < threshold
                 THEN ScoreSet(sc, e, 0)
                 ELSE ScoreSet(sc, e, Clamp(measured_score, 0, One))
         [] OTHER -> sc

\* the loop of a scorer system over the entities its query matches
RECURSIVE ScorerLoop(_, _, _)
ScorerLoop(q, i, sc) ==
    IF sc.panic \/ i > Len(q) THEN sc
    ELSE ScorerLoop(q, i + 1, UpdateScorer(sc, q[i]))

ScorersOfKindSet(k) == {e \in ScorerEnts : ScorerCatalogue[e].kind = k}

ScorersOfKind(k) == SortedSeq({e \in ScorerEnts : ScorerCatalogue[e].kind = k})

\* The systems of BigBrainSet::Scorers (lib.rs:261-273): a tuple in the set,
\* with no order among its members, to which the application adds the
\* systems of its own Scorers (examples/custom_measure.rs:207-214).
ScorerSystems ==
    {"user", "fixed_score_system", "measured_scorers_system", "all_or_nothing_system",
     "sum_of_scorers_system", "product_of_scorers_system", "winning_scorer_system",
     "evaluating_scorer_system"}

\* the Scorers are built, each with Score::default() (scorers.rs:110)
ScorerInit ==
    /\ NoActions
    /\ panic = FALSE
    /\ args \in [fixed : FixedValues, threshold : Thresholds, use_compensation : BOOLEAN]
    /\ ret = << >>
    /\ score = [e \in ScorerEnts |-> 0]
    /\ ran = {}

\* system sys of the set runs, once per tick
RunScorerSystem(sys, kind) ==
    /\ ~panic
    /\ sys \notin ran
    /\ LET sc == ScorerLoop(ScorersOfKind(kind), 1, ScoreAcc)
       IN /\ score' = sc.score
          /\ panic' = sc.panic
    /\ ran' = ran \cup {sys}
    /\ UNCHANGED <<actionVars, args, ret>>

FixedScoreSystem == RunScorerSystem("fixed_score_system", "fixed")

MeasuredScorersSystem == RunScorerSystem("measured_scorers_system", "measured")

AllOrNothingSystem == RunScorerSystem("all_or_nothing_system", "all_or_nothing")

SumOfScorersSystem == RunScorerSystem("sum_of_scorers_system", "sum")

ProductOfScorersSystem == RunScorerSystem("product_of_scorers_system", "product")

WinningScorerSystem == RunScorerSystem("winning_scorer_system", "winning")

EvaluatingScorerSystem == RunScorerSystem("evaluating_scorer_system", "evaluating")

\* the scorer system of the application stores a value for each of its
\* Scorers
UserScorerSystem ==
    /\ ~panic
    /\ "user" \notin ran
    /\ \E v \in [ScorersOfKindSet("user") -> UserValues] :
          score' = [e \in ScorerEnts |-> IF e \in DOMAIN v THEN v[e] ELSE score[e]]
    /\ ran' = ran \cup {"user"}
    /\ UNCHANGED <<actionVars, panic, args, ret>>

\* BigBrainSet::Thinkers follows BigBrainSet::Scorers (lib.rs:251-259): the
\* Thinker pass reads the Scores, and the next tick begins
ThinkersReadScores ==
    /\ ~panic
    /\ ran = ScorerSystems
    /\ ran' = {}
    /\ UNCHANGED <<actionVars, panic, args, ret, score>>

ScorerNext ==
    \/ UserScorerSystem
    \/ FixedScoreSystem
    \/ MeasuredScorersSystem
    \/ AllOrNothingSystem
    \/ SumOfScorersSystem
    \/ ProductOfScorersSystem
    \/ WinningScorerSystem
    \/ EvaluatingScorerSystem
    \/ ThinkersReadScores

ScorerSpec == ScorerInit /\ [][ScorerNext]_vars

TypeOK ==
    /\ DOMAIN heap \subseteq 1..MaxEnt
    /\ \A e \in DOMAIN heap : heap[e].state \in ActionState
    /\ nextId \in 1..(MaxEnt + 1)
    /\ ~panic

\* ------------------------------------------------------------------------
\* Vocabulary of the properties.
StepsEnts(h) == {e \in DOMAIN h : h[e].kind = "steps"}

ConcEnts(h) == {e \in DOMAIN h : h[e].kind = "conc"}

ThinkerEnts(h) == {e \in DOMAIN h : h[e].kind = "thinker"}

StepsList(h, e) == Catalogue[h[e].bld].kids

\* the step taken is a run of steps_system / concurrent_system / thinker_system
StepsPass == StepsTurn /\ pc' /= pc

ConcurrentPass == ConcurrentTurn /\ pc' /= pc

ThinkerPass == pc = "thinker" /\ pc' = "sync_thinkers"

Queued(cs, op, id) == \E i \in 1..Len(cs) : cs[i].op = op /\ cs[i].id = id

QueuedSpawn(cs, id, bld) ==
    \E i \in 1..Len(cs) : cs[i].op = "spawn" /\ cs[i].id = id /\ cs[i].rec.bld = bld

\* ------------------------------------------------------------------------
\* C1 (as stated): a Steps action is in Success only after each of its n
\* steps has been spawned in order and has reached Success, i.e. only with
\* its last step active and in Success.
C1_SuccessOnlyAfterAllSteps ==
    \A e \in StepsEnts(heap) :
        heap[e].state = "Success" =>
            /\ heap[e].active_step = Len(StepsList(heap, e)) - 1
            /\ StateOf(heap, heap[e].active_ent) = "Success"

\* C1 (amended): a Steps action goes from Executing to Success only with its
\* last step active and in Success; active_step advances by one, only when the
\* active step is in Success, to a child spawned from the next builder of the
\* list; the active child is always the one built from steps[active_step].
C1_StepsInOrder ==
    [][ /\ \A e \in StepsEnts(heap) \cap DOMAIN heap' :
             /\ (heap[e].state = "Executing" /\ heap'[e].state = "Success") =>
                    /\ heap[e].active_step = Len(StepsList(heap, e)) - 1
                    /\ StateOf(heap, heap[e].active_ent) = "Success"
             /\ (heap'[e].active_step /= heap[e].active_step
                   \/ heap'[e].active_ent /= heap[e].active_ent) =>
                    /\ heap'[e].active_step = heap[e].active_step + 1
                    /\ StateOf(heap, heap[e].active_ent) = "Success"
                    /\ QueuedSpawn(cmds', heap'[e].active_ent,
                                   StepsList(heap, e)[heap'[e].active_step + 1])
        /\ \A e \in StepsEnts(heap') :
             heap'[e].active_ent \in DOMAIN heap' =>
                 heap'[heap'[e].active_ent].bld = StepsList(heap', e)[heap'[e].active_step + 1]
      ]_vars

\* a Steps action has just gone from Executing to Success after its last step
C1_Witness ==
    \E e \in StepsEnts(heap) :
        /\ heap[e].state = "Success"
        /\ heap[e].active_step = Len(StepsList(heap, e)) - 1
        /\ Len(StepsList(heap, e)) >= 3
        /\ \E w \in writes : w.ent = e /\ w.from = "Executing" /\ w.to = "Success"

\* ------------------------------------------------------------------------
\* C2: a steps_system run that finds an Executing Steps action with its
\* active step in Failure sets the Steps action to Failure and queues the
\* despawn of the failed child, which the next sync point removes; a Steps
\* action in Failure never changes its active step again, so no later step
\* is spawned.
C2_FailureShortCircuit ==
    [][ /\ \A e \in StepsEnts(heap) :
             /\ (StepsPass /\ heap[e].state = "Executing"
                   /\ StateOf(heap, heap[e].active_ent) = "Failure") =>
                    /\ heap'[e].state = "Failure"
                    /\ Queued(cmds', "despawn", heap[e].active_ent)
                    /\ heap'[e].active_step = heap[e].active_step
                    /\ heap'[e].active_ent = heap[e].active_ent
             /\ (heap[e].state = "Failure" /\ e \in DOMAIN heap') =>
                    /\ heap'[e].state = "Failure"
                    /\ heap'[e].active_step = heap[e].active_step
                    /\ heap'[e].active_ent = heap[e].active_ent
        /\ \A c \in DOMAIN heap :
             (Queued(cmds, "despawn", c) /\ cmds' = << >>) => c \notin DOMAIN heap'
      ]_vars

\* steps_system has just failed a Steps action that had steps left to run
C2_Witness ==
    \E e \in StepsEnts(heap) :
        /\ heap[e].state = "Failure"
        /\ heap[e].active_step < Len(StepsList(heap, e)) - 1
        /\ Queued(cmds, "despawn", heap[e].active_ent)
        /\ \E w \in writes : /\ w.sys = "steps_system" /\ w.ent = e
                             /\ w.from = "Executing" /\ w.to = "Failure"

\* ------------------------------------------------------------------------
\* C3: a Concurrently action is in Success only when every one of its
\* children is in Success.
C3_SuccessOnlyIfAllSucceeded ==
    \A e \in ConcEnts(heap) :
        heap[e].state = "Success" =>
            \A i \in 1..Len(heap[e].actions) :
                StateOf(heap, heap[e].actions[i]) = "Success"

\* ------------------------------------------------------------------------
\* C4: a concurrent_system run that finds an Executing Concurrently action
\* with a child in Failure leaves every child that was neither Success nor
\* Failure in Cancelled, before or after the failed one in the list, and
\* leaves the Concurrently action itself in Cancelled.
C4_CancelSiblings ==
    [][ ConcurrentPass =>
          \A e \in ConcEnts(heap) :
             (/\ heap[e].state = "Executing"
              /\ \E i \in 1..Len(heap[e].actions) :
                    StateOf(heap, heap[e].actions[i]) = "Failure") =>
                /\ heap'[e].state = "Cancelled"
                /\ \A i \in 1..Len(heap[e].actions) :
                      StateOf(heap, heap[e].actions[i]) \notin {"Success", "Failure"} =>
                          StateOf(heap', heap[e].actions[i]) = "Cancelled"
      ]_vars

\* concurrent_system has just cancelled a child before and a child after the
\* failed one
C4_Witness ==
    \E e \in ConcEnts(heap) :
        /\ heap[e].state = "Cancelled"
        /\ \E w \in writes : w.ent = e /\ w.from = "Executing" /\ w.to = "Cancelled"
        /\ \E i, j, k \in 1..Len(heap[e].actions) :
              /\ i < j /\ j < k
              /\ StateOf(heap, heap[e].actions[j]) = "Failure"
              /\ \E w \in writes : w.ent = heap[e].actions[i] /\ w.to = "Cancelled"
              /\ \E w \in writes : w.ent = heap[e].actions[k] /\ w.to = "Cancelled"

\* ------------------------------------------------------------------------
\* C5: a Concurrently action leaves Cancelled only when every child is in
\* Success or Failure, and then for Failure if some child is in Failure and
\* for Success otherwise.
C5_SettleOnlyWhenAllTerminal ==
    [][ \A e \in ConcEnts(heap) \cap DOMAIN heap' :
          (heap[e].state = "Cancelled" /\ heap'[e].state /= "Cancelled") =>
             /\ \A i \in 1..Len(heap[e].actions) :
                   StateOf(heap, heap[e].actions[i]) \in {"Success", "Failure"}
             /\ heap'[e].state =
                   IF \E i \in 1..Len(heap[e].actions) :
                         StateOf(heap, heap[e].actions[i]) = "Failure"
                   THEN "Failure" ELSE "Success"
      ]_vars

\* ------------------------------------------------------------------------
\* the Choice the Picker of Thinker t returns for the stored Scores (0: None)
Picked(h, t) == FirstToScore(Catalogue[h[t].bld].threshold, h[t].scores, 1)

\* Thinker t is visited as Executing by the thinker_system run being taken:
\* it is Executing and no Thinker visited before it wrote its state
VisitedExecuting(t) ==
    /\ ThinkerPass
    /\ heap[t].state = "Executing"
    /\ ~ \E w \in writes' : w.ent = t /\ w.by /= t

\* C6: when the Choice that produced the current action wins again and the
\* action is not in Success or Failure, the visit keeps the action: the
\* current slot is unchanged, no despawn of the action is queued, and the
\* only write of the Thinker to it is Init -> Requested.
C6_SameChoiceKeepsAction ==
    [][ \A t \in ThinkerEnts(heap) :
          LET cur == heap[t].cur
          IN (/\ VisitedExecuting(t)
              /\ cur.ent /= 0
              /\ Picked(heap, t) = cur.wid
              /\ StateOf(heap, cur.ent) \notin {"Success", "Failure"}) =>
                /\ heap'[t].cur = cur
                /\ cur.ent \in DOMAIN heap'
                /\ ~Queued(cmds', "despawn", cur.ent)
                /\ \A w \in writes' :
                      (w.by = t /\ w.ent = cur.ent) =>
                          (w.from = "Init" /\ w.to = "Requested")
                /\ StateOf(heap, cur.ent) = "Init" =>
                      \E w \in writes' : w.by = t /\ w.ent = cur.ent
      ]_vars

\* a Thinker has just been visited with the Choice of its running action
\* winning again
C6_Witness ==
    /\ pc = "sync_thinkers"
    /\ \E t \in ThinkerEnts(heap) :
          /\ heap[t].state = "Executing"
          /\ heap[t].cur.ent /= 0
          /\ Picked(heap, t) = heap[t].cur.wid
          /\ StateOf(heap, heap[t].cur.ent) = "Executing"
          /\ heap[heap[t].cur.ent].kind /= "thinker"
          /\ ~ \E w \in writes : w.by = t

\* ------------------------------------------------------------------------
\* C7: when a Choice wins that did not produce the current action and the
\* action is Requested or Executing, the visit writes Cancelled to it and
\* keeps it as current (a lone Thinker reserves no entity in that run); and
\* as long as the current action is Requested, Executing or Cancelled no step
\* replaces it in the current slot.
C7_CancelThenReplace ==
    [][ \A t \in ThinkerEnts(heap) \cap DOMAIN heap' :
          LET cur == heap[t].cur
          IN /\ (/\ VisitedExecuting(t)
                 /\ cur.ent /= 0
                 /\ Picked(heap, t) \notin {0, cur.wid}
                 /\ StateOf(heap, cur.ent) \in {"Requested", "Executing"}) =>
                   /\ \E w \in writes' :
                         w.by = t /\ w.ent = cur.ent /\ w.to = "Cancelled"
                   /\ heap'[t].cur = cur
                   /\ ~Queued(cmds', "despawn", cur.ent)
                   /\ Cardinality(ThinkerEnts(heap)) = 1 => nextId' = nextId
             /\ (/\ cur.ent /= 0
                 /\ StateOf(heap, cur.ent) \in {"Requested", "Executing", "Cancelled"}) =>
                   heap'[t].cur = cur
      ]_vars

\* a Thinker has just cancelled its live action because another Choice won
C7_Witness ==
    /\ pc = "sync_thinkers"
    /\ \E w \in writes :
          /\ w.sys = "thinker_system" /\ w.to = "Cancelled"
          /\ w.from = "Requested"
          /\ w.by \in ThinkerEnts(heap)
          /\ heap[w.by].state = "Executing"
          /\ heap[w.by].cur.ent = w.ent
          /\ Picked(heap, w.by) \notin {0, heap[w.by].cur.wid}

\* ------------------------------------------------------------------------
\* C8: no action entity (the actor's own Thinker entity aside) leaves the
\* world while its ActionState is Requested or Executing, whichever system
\* queued the despawn.
C8_NoLiveDespawn ==
    [][ \A e \in DOMAIN heap \ DOMAIN heap' :
          e /= hasThinker => heap[e].state \notin {"Requested", "Executing"} ]_vars

\* ------------------------------------------------------------------------
\* C9: no engine system writes Cancelled over Init, Success or Failure.
C9_CancelOnlyLive ==
    \A w \in writes :
        w.to = "Cancelled" => w.from \notin {"Init", "Success", "Failure"}

\* ------------------------------------------------------------------------
\* C10: what an engine system writes into the ActionState of an entity
\* other than the one it visits is Requested or Cancelled; a leaf action
\* leaves Cancelled only for Success or Failure and only by a step of its
\* own system.
C10_EngineNeverResolves ==
    [][ /\ \A w \in writes' : w.ent /= w.by => w.to \in {"Requested", "Cancelled"}
        /\ \A e \in DOMAIN heap \cap DOMAIN heap' :
             (/\ heap[e].kind = "leaf"
              /\ heap[e].state = "Cancelled"
              /\ heap'[e].state /= "Cancelled") =>
                /\ heap'[e].state \in {"Success", "Failure"}
                /\ pc' = pc /\ cmds' = cmds /\ writes' = {}
      ]_vars

\* steps_system has just cancelled the running step of a Cancelled Steps
C10_Witness ==
    \E w \in writes :
        /\ w.sys = "steps_system" /\ w.ent /= w.by
        /\ w.from \in {"Requested", "Executing"} /\ w.to = "Cancelled"
        /\ heap[w.by].state = "Cancelled"

\* ------------------------------------------------------------------------
\* entity e left Cancelled for Success or Failure, or left the world
Settled(e) == e \notin DOMAIN heap \/ heap[e].state \in {"Success", "Failure"}

\* C11: with every Cancelled leaf action resolved by its system after
\* finitely many ticks, a Steps action that is Cancelled reaches Success or
\* Failure (or is despawned) after finitely many ticks.
C11_CancelledStepsSettle ==
    \A e \in 1..MaxEnt :
        []((e \in StepsEnts(heap) /\ heap[e].state = "Cancelled") => <>Settled(e))

\* ------------------------------------------------------------------------
\* C12: with every Cancelled leaf action resolved by its system after
\* finitely many ticks, a Concurrently action that is Cancelled (by its owner
\* or by itself after a child failed) reaches Success or Failure (or is
\* despawned) after finitely many ticks.
C12_CancelledConcurrentlySettles ==
    \A e \in 1..MaxEnt :
        []((e \in ConcEnts(heap) /\ heap[e].state = "Cancelled") => <>Settled(e))

\* ------------------------------------------------------------------------
\* the ActionState Thinker t has when the thinker_system run being taken
\* visits it: what its owner, visited before it, wrote in this run, or else
\* what it had before the run
VisitState(t) ==
    LET ws == {w \in writes' : w.ent = t /\ w.by /= t}
    IN IF ws = {} THEN heap[t].state ELSE (CHOOSE w \in ws : TRUE).to

\* the thinker_system run being taken visits Thinker t in ActionState s
VisitedIn(t, s) ==
    /\ ThinkerPass
    /\ \E i \in 1..Len(visited') : visited'[i] = t
    /\ VisitState(t) = s

\* C13: a visit of a Cancelled Thinker whose current action is in Success or
\* Failure gives the Thinker that state, queues the despawn of the action
\* and clears the current slot.
C13_CancelledThinkerAdopts ==
    [][ \A t \in ThinkerEnts(heap) :
          LET cur == heap[t].cur
          IN (/\ VisitedIn(t, "Cancelled")
              /\ cur.ent /= 0
              /\ StateOf(heap, cur.ent) \in {"Success", "Failure"}) =>
                /\ heap'[t].state = StateOf(heap, cur.ent)
                /\ Queued(cmds', "despawn", cur.ent)
                /\ heap'[t].cur = NoAction
      ]_vars

\* ------------------------------------------------------------------------
\* C14: a visit of a Cancelled Thinker that has no current action leaves the
\* Thinker in Success.
C14_IdleCancelledSucceeds ==
    [][ \A t \in ThinkerEnts(heap) :
          (VisitedIn(t, "Cancelled") /\ heap[t].cur.ent = 0) =>
              heap'[t].state = "Success"
      ]_vars

\* a Cancelled Thinker without a current action has just been visited
C14_Witness ==
    /\ pc = "sync_thinkers"
    /\ \E w \in writes :
          /\ w.sys = "thinker_system" /\ w.by = w.ent
          /\ w.from = "Cancelled" /\ w.to = "Success"
          /\ heap[w.ent].kind = "thinker"
          /\ heap[w.ent].cur.ent = 0
          /\ \E i \in 1..Len(visited) : visited[i] = w.ent

\* ------------------------------------------------------------------------
\* C15: whenever a Thinker's current slot passes from one action entity to
\* another, the despawn of the replaced entity is queued by the same run, so
\* that the next sync point removes it.
C15_ReplacedActionDespawned ==
    [][ \A t \in ThinkerEnts(heap) \cap DOMAIN heap' :
          LET old == heap[t].cur.ent
              new == heap'[t].cur.ent
          IN (old /= 0 /\ new /= 0 /\ new /= old) => Queued(cmds', "despawn", old)
      ]_vars

\* ------------------------------------------------------------------------
\* C16: when no Choice wins and the Thinker has a fallback, a current action
\* that was not produced by the fallback builder and is Requested or
\* Executing is set to Cancelled by the visit.
C16_FallbackCancelsOther ==
    [][ \A t \in ThinkerEnts(heap) :
          LET cur == heap[t].cur
          IN (/\ VisitedIn(t, "Executing")
              /\ Picked(heap, t) = 0
              /\ Catalogue[heap[t].bld].otherwise /= 0
              /\ cur.ent /= 0
              /\ cur.wid /= 0
              /\ StateOf(heap, cur.ent) \in {"Requested", "Executing"}) =>
                \E w \in writes' : w.by = t /\ w.ent = cur.ent /\ w.to = "Cancelled"
      ]_vars

\* ------------------------------------------------------------------------
\* C17: the schedule queue of a Thinker gets shorter only in a visit of the
\* Thinker as Executing in which no Choice won and the current action is
\* absent or in Success or Failure; and a thinker_system run in which no
\* Choice won and the queue is not empty leaves a Requested, Executing or
\* Cancelled current action in the slot, queues no despawn of it and does
\* not write Cancelled to it.
C17_QueueNeverPreempts ==
    [][ \A t \in ThinkerEnts(heap) \cap DOMAIN heap' :
          LET cur == heap[t].cur
              q == heap[t].sched
          IN /\ Len(heap'[t].sched) < Len(q) =>
                   /\ VisitedIn(t, "Executing")
                   /\ Picked(heap, t) = 0
                   /\ cur.ent = 0 \/ StateOf(heap, cur.ent) \in {"Success", "Failure"}
             /\ (/\ ThinkerPass
                 /\ q /= <<>>
                 /\ Picked(heap, t) = 0
                 /\ cur.ent /= 0
                 /\ StateOf(heap, cur.ent) \in {"Requested", "Executing", "Cancelled"}) =>
                   /\ heap'[t].cur = cur
                   /\ heap'[t].sched = q
                   /\ ~Queued(cmds', "despawn", cur.ent)
                   /\ ~ \E w \in writes' : w.by = t /\ w.ent = cur.ent /\ w.to = "Cancelled"
      ]_vars

\* a Thinker has just been visited with a scheduled action waiting in the
\* queue behind a live current action, no Choice having won
C17_Witness ==
    /\ pc = "sync_thinkers"
    /\ \E t \in ThinkerEnts(heap) :
          /\ \E i \in 1..Len(visited) : visited[i] = t
          /\ heap[t].state = "Executing"
          /\ Picked(heap, t) = 0
          /\ heap[t].sched /= <<>>
          /\ heap[t].cur.wid > 0
          /\ StateOf(heap, heap[t].cur.ent) \in {"Requested", "Executing"}
          /\ ~ \E w \in writes : w.to = "Cancelled"

\* ------------------------------------------------------------------------
\* C18: a visit of an Executing Thinker in which no Choice won, the schedule
\* queue is not empty and the current action is absent or in Success or
\* Failure pops the head of the queue, spawns an action from it and makes it
\* the current action; the fallback builder is not the one spawned.
C18_ScheduledBeforeFallback ==
    [][ \A t \in ThinkerEnts(heap) :
          LET cur == heap[t].cur
              q == heap[t].sched
          IN (/\ VisitedIn(t, "Executing")
              /\ Picked(heap, t) = 0
              /\ q /= <<>>
              /\ cur.ent = 0 \/ StateOf(heap, cur.ent) \in {"Success", "Failure"}) =>
                /\ heap'[t].sched = Tail(q)
                /\ heap'[t].cur.wid = Head(q).wid
                /\ heap'[t].cur.wid /= 0
                /\ heap'[t].cur.ent \notin DOMAIN heap
                /\ QueuedSpawn(cmds', heap'[t].cur.ent, Head(q).bld)
                /\ \A i \in 1..Len(cmds') :
                      cmds'[i].op = "spawn" => cmds'[i].id = heap'[t].cur.ent
      ]_vars

\* a Thinker with a fallback has just spawned the head of its schedule queue
C18_Witness ==
    /\ pc = "sync_thinkers"
    /\ \E t \in ThinkerEnts(heap) :
          /\ Catalogue[heap[t].bld].otherwise /= 0
          /\ Picked(heap, t) = 0
          /\ heap[t].cur.wid < 0
          /\ QueuedSpawn(cmds, heap[t].cur.ent, heap[t].cur.bld)

\* ------------------------------------------------------------------------
\* C19: the schedule queue holds the builders of the latest schedule_action
\* calls, oldest first; it grows by one, at its tail, with a call, and gets
\* shorter only by losing its head, whose builder is spawned as the new
\* current action; an action of a scheduled builder becomes current in no
\* other way.  So the k-th scheduled builder is spawned after the first
\* k - 1 and never again.
C19_ScheduleIsFifo ==
    [][ \A t \in ThinkerEnts(heap') :
          LET q2 == heap'[t].sched
          IN /\ \A i \in 1..Len(q2) : q2[i].wid = -(nSched' - Len(q2) + i)
             /\ t \in DOMAIN heap =>
                   LET q == heap[t].sched
                   IN /\ Len(q2) > Len(q) =>
                            (nSched' = nSched + 1 /\ SubSeq(q2, 1, Len(q)) = q
                               /\ Len(q2) = Len(q) + 1)
                      /\ Len(q2) < Len(q) =>
                            /\ q2 = Tail(q)
                            /\ heap'[t].cur.wid = Head(q).wid
                            /\ QueuedSpawn(cmds', heap'[t].cur.ent, Head(q).bld)
                      /\ (heap'[t].cur.ent /= heap[t].cur.ent /\ heap'[t].cur.wid < 0) =>
                            Len(q2) < Len(q)
      ]_vars

\* of two scheduled actions waiting together the first has just been spawned
C19_Witness ==
    /\ pc = "sync_thinkers"
    /\ \E t \in ThinkerEnts(heap) :
          /\ heap[t].sched /= <<>>
          /\ heap[t].cur.wid < 0
          /\ heap[t].cur.wid = Head(heap[t].sched).wid + 1
          /\ QueuedSpawn(cmds, heap[t].cur.ent, heap[t].cur.bld)

\* ------------------------------------------------------------------------
\* C20: a thinker_system run that finds the cursor at k > 0 (the run before
\* it returned early after the first k Thinkers of the query) visits the
\* Thinkers from position k + 1 on, in query order, and none of the first k;
\* when it returns early in its turn the cursor has advanced by the number
\* of Thinkers it visited.
C20_ResumesAfterCursor ==
    [][ ThinkerPass =>
          LET q == Thinkers(heap)
              k == itIndex
          IN /\ k + Len(visited') <= Len(q) \/ visited' = <<>>
             /\ visited' /= <<>> => visited' = SubSeq(q, k + 1, k + Len(visited'))
             /\ \A j \in 1..Len(visited') : \A i \in 1..k :
                   i <= Len(q) => visited'[j] /= q[i]
             /\ (k < Len(q)) => (visited' /= <<>> /\ visited'[1] = q[k + 1])
             /\ itIndex' /= 0 => itIndex' = k + Len(visited')
      ]_vars

\* a run has just resumed behind the cursor an early return left
C20_Witness ==
    /\ pc = "sync_thinkers"
    /\ visited /= <<>>
    /\ Len(Thinkers(heap)) > BudgetModulus
    /\ visited[1] = Thinkers(heap)[BudgetModulus + 1]
    /\ heap[Thinkers(heap)[1]].state = "Executing"
    /\ \E w \in writes : w.ent = visited[1] /\ w.from = "Requested"

\* ------------------------------------------------------------------------
\* C21: with a fixed set of N Thinkers, no Thinker is left out by more than
\* N \div BudgetModulus runs of thinker_system in a row, whichever of the runs
\* the budget cuts short: each Thinker is visited at least once in any
\* N \div BudgetModulus + 1 consecutive ticks.
C21_VisitedWithinBound ==
    /\ DOMAIN age = ThinkerEnts(heap)
    /\ \A t \in DOMAIN age : age[t] <= Cardinality(DOMAIN age) \div BudgetModulus

\* a run cut short by the budget left Thinkers out, and the next run, which
\* has just ended, visited exactly those
C21_Witness ==
    /\ pc = "sync_thinkers"
    /\ itIndex = 0
    /\ visited /= <<>>
    /\ Len(visited) = Len(Thinkers(heap)) - BudgetModulus
    /\ age[Thinkers(heap)[1]] = 1
    /\ \A i \in 1..Len(visited) : age[visited[i]] = 0

\* ------------------------------------------------------------------------
\* C22: the visit that moves a Thinker from Requested to Executing changes
\* nothing else: the Thinker's current action and queue stay as they were, it
\* writes no other ActionState and queues no command; and whenever a Thinker
\* is visited as Executing, the visit in which its Picker is consulted, a
\* pass of the Scorers set has run since the Thinker was built.
C22_NoPickOnStart ==
    [][ \A t \in ThinkerEnts(heap) :
          /\ VisitedIn(t, "Requested") =>
                /\ heap'[t] = [heap[t] EXCEPT !.state = "Executing"]
                /\ \A w \in writes' : w.by = t => (w.ent = t /\ w.to = "Executing")
                /\ Len(visited') = 1 => cmds' = cmds
          /\ VisitedIn(t, "Executing") => heap[t].scored
      ]_vars

\* a Thinker has just been started while one of its Choices scored at or
\* above the threshold: a Picker consulted in that visit would have picked
C22_Witness ==
    /\ pc = "sync_thinkers"
    /\ visited /= <<>>
    /\ cmds = <<>>
    /\ \E w \in writes :
          /\ w.sys = "thinker_system" /\ w.by = w.ent /\ w.ent = visited[1]
          /\ w.from = "Requested" /\ w.to = "Executing"
          /\ heap[w.ent].cur = NoAction
          /\ heap[w.ent].scored
          /\ FirstToScore(Catalogue[heap[w.ent].bld].threshold, heap[w.ent].scores, 1) /= 0

C24_HighestFirstMax ==
    ret.fn = "Highest" =>
        LET r == ret.value
            s == args.scores
        IN /\ r \in 0..Len(s)
           /\ r /= 0 => s[r] > 0
           /\ r /= 0 => \A j \in 1..Len(s) : s[j] <= s[r]
           /\ r /= 0 => \A j \in 1..(r - 1) : s[j] < s[r]
           /\ r = 0 => \A j \in 1..Len(s) : s[j] <= 0

\* scores 0.5, 0.5, 0.9, 0.9: index 2 of the slice is picked
C24_Witness ==
    /\ ret = [fn |-> "Highest", value |-> 3]
    /\ args.scores = <<5, 5, 9, 9>>

\* ------------------------------------------------------------------------
\* the product of score_i * weight_i over the pairs from i on
RECURSIVE ProductOfWeighted(_, _, _)
ProductOfWeighted(scores, weights, i) ==
    IF i > Len(scores) THEN 1
    ELSE scores[i] * weights[i] * ProductOfWeighted(scores, weights, i + 1)

\* C26: WeightedProduct.calculate returns the product over all inputs of
\* score_i * weight_i, which is not zero when the list is not empty and no
\* score and no weight is zero.
C26_WeightedProductIsProduct ==
    ret.fn = "WeightedProduct" =>
        /\ ret.value = ProductOfWeighted(args.scores, args.weights, 1)
        /\ (\A i \in 1..Len(args.scores) : args.scores[i] /= 0 /\ args.weights[i] /= 0)
              => ret.value /= 0

\* ------------------------------------------------------------------------
\* C25: the Score of a built-in Scorer is always within 0.0..=1.0: whatever
\* its system computes, nothing outside that range is stored through
\* Score::set.
C25_ScoreInUnitRange ==
    \A e \in BuiltIn \cap DOMAIN score : 0 <= score[e] /\ score[e] <= One

\* sum_of_scorers_system has stored 1.0 for children that add up to more
C25_Witness ==
    /\ ~panic
    /\ ran = ScorerSystems
    /\ SumOfChildren(score, ScorerCatalogue[4].kids, 1) > One
    /\ score[4] = One

\* ------------------------------------------------------------------------
\* C27: when the Thinker pass runs, the Score of every composite Scorer is
\* its rule applied to the Scores its children have in that tick.
C27_CompositeFresh ==
    (ran = ScorerSystems /\ ~panic) =>
        \A e \in BuiltIn : UpdateScorer(ScoreAcc, e).score[e] = score[e]

\* ------------------------------------------------------------------------
\* C28: in every tick the Scorers set runs before thinker_system and
\* thinker_system before steps_system and concurrent_system: the Thinker pass
\* is entered only from the scorer pass and left only for the sync point
\* before the Actions set, the two systems of the Actions set run one after
\* the other with nothing between them, Scores are stored only by the scorer
\* pass and Thinkers are visited only by the Thinker pass.
C28_PassOrder ==
    [][ /\ (pc' = "thinker" /\ pc /= "thinker") => pc = "scorers"
        /\ (pc = "thinker" /\ pc' /= "thinker") => pc' = "sync_thinkers"
        /\ (pc' = "actions_a" /\ pc /= "actions_a") => pc = "sync_thinkers"
        /\ (pc = "actions_a" /\ pc' /= "actions_a") =>
              (pc' = "actions_b" /\ (StepsPass \/ ConcurrentPass))
        /\ (pc = "actions_b" /\ pc' /= "actions_b") =>
              (pc' = "sync_actions" /\ (StepsPass \/ ConcurrentPass))
        /\ (StepsPass \/ ConcurrentPass) => pc \in {"actions_a", "actions_b"}
        /\ visited' /= <<>> => ThinkerPass
        /\ \A w \in writes' : w.sys = "thinker_system" => ThinkerPass
        /\ \A t \in ThinkerEnts(heap) \cap DOMAIN heap' :
              heap'[t].scores /= heap[t].scores => pc = "scorers"
      ]_vars

\* the end of the Actions set of a tick in which both composite systems
\* followed a Thinker whose Choices had been scored
C28_Witness ==
    /\ pc = "sync_actions"
    /\ \E w \in writes : w.sys \in {"steps_system", "concurrent_system"}
    /\ \E t \in ThinkerEnts(heap) :
          /\ heap[t].scored
          /\ heap[t].state = "Executing"
          /\ heap[t].cur.ent \in DOMAIN heap

\* ------------------------------------------------------------------------
\* C29: when a visit of an Executing Thinker without a current action
\* resolves a builder (a Choice wins, or the fallback runs), the action it
\* spawns is stored as current and is Requested when that visit ends.
C29_SpawnedRequested ==
    [][ \A t \in ThinkerEnts(heap) :
          (/\ VisitedIn(t, "Executing")
           /\ heap[t].cur = NoAction
           /\ heap[t].sched = <<>>
           /\ \/ FirstToScore(Catalogue[heap[t].bld].threshold, heap[t].scores, 1) /= 0
              \/ Catalogue[heap[t].bld].otherwise /= 0) =>
              /\ heap'[t].cur.ent /= 0
              /\ \E i \in 1..Len(cmds') :
                    /\ cmds'[i].op = "spawn"
                    /\ cmds'[i].id = heap'[t].cur.ent
                    /\ cmds'[i].rec.state = "Requested"
      ]_vars

\* ------------------------------------------------------------------------
\* C30: every action entity enters the world in Init, and leaves Init only
\* for Requested, written by the Thinker or composite that owns it; a
\* Thinker used as an action is not moved to Executing, and spawns nothing,
\* before its owner has written Requested.
C30_StartsInInit ==
    [][ /\ \A e \in DOMAIN heap' \ DOMAIN heap :
              e /= hasThinker' => heap'[e].state = "Init"
        /\ \A e \in DOMAIN heap \cap DOMAIN heap' :
              (heap[e].state = "Init" /\ heap'[e].state /= "Init") =>
                  \E w \in writes' : /\ w.ent = e /\ w.by /= e
                                      /\ w.from = "Init" /\ w.to = "Requested"
      ]_vars

C32_CancelledStepsArm ==
    [][ StepsPass =>
          \A e \in StepsEnts(heap) :
             LET a == heap[e].active_ent
                 st == StateOf(heap, a)
             IN heap[e].state = "Cancelled" =>
                  /\ st \in {"Requested", "Executing"} =>
                        (heap'[a].state = "Cancelled" /\ heap'[e].state = "Cancelled")
                  /\ st \notin {"Requested", "Executing"} =>
                        ~ \E w \in writes' : w.ent = a
                  /\ st \in {"Success", "Failure"} => heap'[e].state = st
                  /\ st \notin {"Success", "Failure"} => heap'[e].state = "Cancelled"
      ]_vars

\* a Cancelled Steps action has just taken the terminal state of its active
\* step, which had been Cancelled through it
C32_Witness ==
    \E w \in writes :
        /\ w.sys = "steps_system" /\ w.by = w.ent
        /\ w.from = "Cancelled" /\ w.to \in {"Success", "Failure"}
        /\ heap[w.ent].kind = "steps"
        /\ StateOf(heap, heap[w.ent].active_ent) = w.to
        /\ heap[w.ent].active_step < Len(StepsList(heap, w.ent)) - 1

\* ------------------------------------------------------------------------
\* C33: a visit of an Executing Thinker whose current action is Cancelled
\* waits, whatever the Picker returns, whatever is scheduled and whether or
\* not there is a fallback: the current slot and the schedule queue are
\* unchanged, the Thinker writes no state, and the run queues no spawn and
\* no despawn of that action.
C33_CancelledCurrentWaits ==
    [][ \A t \in ThinkerEnts(heap) :
          LET cur == heap[t].cur
          IN (/\ VisitedIn(t, "Executing")
              /\ cur.ent /= 0
              /\ StateOf(heap, cur.ent) = "Cancelled") =>
                /\ heap'[t].cur = cur
                /\ heap'[t].sched = heap[t].sched
                /\ ~ \E w \in writes' : w.by = t
                /\ ~ Queued(cmds', "despawn", cur.ent)
                /\ ~ \E i \in 1..Len(cmds') : cmds'[i].op = "spawn"
      ]_vars

\* after a thinker_system run an Executing Thinker still holds its Cancelled
\* fallback action, although a Choice wins and an action is scheduled
C33_Witness ==
    /\ pc = "sync_thinkers"
    /\ \E t \in ThinkerEnts(heap) :
          /\ heap[t].state = "Executing"
          /\ heap[t].cur.ent /= 0
          /\ heap[t].cur.wid = 0
          /\ StateOf(heap, heap[t].cur.ent) = "Cancelled"
          /\ Picked(heap, t) /= 0
          /\ heap[t].sched /= <<>>
          /\ Catalogue[heap[t].bld].otherwise /= 0
          /\ ~ \E w \in writes : w.by = t

\* ------------------------------------------------------------------------
\* C34: a thinker_system run queues the despawn of a current action that was
\* popped from the schedule queue only after that action has been set to
\* Requested, so never while it is still in Init (no engine system and no
\* action system ever writes Init).
C34_ScheduledRequestedFirst ==
    [][ ThinkerPass =>
          \A t \in ThinkerEnts(heap) :
             LET cur == heap[t].cur
             IN (/\ cur.ent /= 0
                 /\ cur.wid < 0
                 /\ Queued(cmds', "despawn", cur.ent)) =>
                   StateOf(heap, cur.ent) /= "Init"
      ]_vars

C36_DoneThinkerHoldsNothing ==
    \A t \in ThinkerEnts(heap) :
        heap[t].state \in {"Success", "Failure"} => heap[t].cur.ent = 0

\* a Thinker that was cancelled while it held a current action (its spawns
\* took the entity ids after its own) has just written Success to itself,
\* its slot empty
C36_Witness ==
    /\ pc = "sync_thinkers"
    /\ \E t \in ThinkerEnts(heap) :
          /\ heap[t].state = "Success"
          /\ heap[t].cur.ent = 0
          /\ \E w \in writes : /\ w.ent = t /\ w.by = t
                               /\ w.from = "Cancelled" /\ w.to = "Success"
          /\ \E o \in ThinkerEnts(heap) :
                /\ heap[o].cur.ent = t
                /\ Catalogue[heap[o].bld].kids[heap[o].cur.wid] = heap[t].bld
          /\ nextId > t + 1
          /\ \A e \in (t + 1)..(nextId - 1) : e \notin DOMAIN heap

\* ------------------------------------------------------------------------
\* C37: every thinker_system run that finds at least one Thinker in the
\* world visits at least one Thinker.
C37_EveryRunVisits ==
    [][ (ThinkerPass /\ ThinkerEnts(heap) /= {}) => visited' /= <<>> ]_vars

C39_ActiveStepValid ==
    [][ /\ \A e \in StepsEnts(heap') :
             /\ heap'[e].active_step >= 0
             /\ heap'[e].active_step < Len(StepsList(heap', e))
        /\ \A e \in StepsEnts(heap) \cap DOMAIN heap' :
             /\ heap'[e].active_step \in {heap[e].active_step, heap[e].active_step + 1}
             /\ heap'[e].active_step = heap[e].active_step =>
                   heap'[e].active_ent = heap[e].active_ent
             /\ heap'[e].active_step = heap[e].active_step + 1 =>
                   /\ heap'[e].active_ent \notin DOMAIN heap
                   /\ heap'[e].active_ent = nextId
                   /\ QueuedSpawn(cmds', heap'[e].active_ent,
                                  StepsList(heap, e)[heap'[e].active_step + 1])
        /\ \A e \in StepsEnts(heap') \ DOMAIN heap :
             /\ heap'[e].active_step = 0
             /\ heap'[e].active_ent \in DOMAIN heap' \ DOMAIN heap
             /\ heap'[e].active_ent \in heap'[e].children
             /\ heap'[heap'[e].active_ent].bld = StepsList(heap', e)[1]
      ]_vars

\* a Steps action of three steps is running its last step, the two before it
\* despawned
C39_Witness ==
    \E e \in StepsEnts(heap) :
        /\ heap[e].state = "Executing"
        /\ Len(StepsList(heap, e)) = 3
        /\ heap[e].active_step = 2
        /\ heap[e].active_ent \in DOMAIN heap
        /\ heap[heap[e].active_ent].state = "Executing"
        /\ heap[e].children = {heap[e].active_ent}

\* ------------------------------------------------------------------------
\* the actions spawned from a StepsBuilder with no steps
EmptyStepsEnts(h) ==
    {e \in DOMAIN h : /\ h[e].bld \in 1..Len(Catalogue)
                      /\ Catalogue[h[e].bld].kind = "steps"
                      /\ Catalogue[h[e].bld].kids = <<>>}

\* C40: with the schedule running in every frame, an action built from a
\* StepsBuilder without steps that is Requested or Cancelled reaches Success
\* or Failure (or is despawned) after finitely many ticks.
C40_EmptyStepsSettle ==
    \A e \in 1..MaxEnt :
        []((e \in EmptyStepsEnts(heap) /\ heap[e].state \in {"Requested", "Cancelled"})
              => <>Settled(e))

====
